---- MODULE Spec2Model ----
(***************************************************************************)
(* cpp-example-collection: the CMake helper cmake/LiveKitSDK.cmake         *)
(* (livekit_sdk_setup and its helpers) and the example binary              *)
(* basic_room/main.cpp (parseArgs, main, the SIGINT handler and the two    *)
(* capture threads).                                                       *)
(*                                                                         *)
(* Strings are sequences of chunks (<<"v", "1">> is "v1"), so that         *)
(* concatenation is \o and a prefix test is a test on the first chunks.    *)
(***************************************************************************)
EXTENDS Integers, Sequences, FiniteSets, TLC

VARIABLES
  \* ---- cmake/LiveKitSDK.cmake ----
  host,              \* WIN32 / APPLE / UNIX and CMAKE_HOST_SYSTEM_PROCESSOR
  call,              \* the arguments the calling CMakeLists.txt always passes
  ARGN,              \* the arguments of the current livekit_sdk_setup call
  LK,                \* the LK_* variables after cmake_parse_arguments
  _resolved_version, \* the version after "latest" is resolved
  _url,              \* the download URL
  _extracted_root,   \* <SDK_DIR>/livekit-sdk-<triple>-<version>
  found,             \* the result of EXISTS "${_extracted_root}" at line 200
  sdkpc,             \* position inside livekit_sdk_setup
  fatal,             \* the message(FATAL_ERROR ...) that stopped the run, or ""
  dirs,              \* the directories that exist on disk
  CMAKE_PREFIX_PATH, \* list, reset by every configure run
  LiveKit_DIR,
  cache,             \* the LIVEKIT_SDK_* cache entries (CMakeCache.txt)
  trace,             \* what this run did: network calls, remove, extract, prefix
  faults,            \* what went wrong around this run (host, network, archive)
  lastDerived        \* what the previous run derived (version, url, root)

sdkVars == <<host, call, ARGN, LK, _resolved_version, _url, _extracted_root, found,
             sdkpc, fatal, dirs, CMAKE_PREFIX_PATH, LiveKit_DIR, cache, trace,
             faults, lastDerived>>

\* ---- basic_room/main.cpp ----
VARIABLES
  argv,           \* argv[1..argc-1]
  env,            \* LIVEKIT_URL and LIVEKIT_TOKEN as std::getenv returns them
  url, token, self_test,
  parsed,         \* what parseArgs returned and why
  pc,             \* position inside main
  handler,        \* the disposition of SIGINT
  g_running,
  lk,             \* the SDK: "uninitialized", "initialized" or "shut down"
  initCalls,      \* calls of livekit::initialize
  shutdownCalls,  \* calls of livekit::shutdown
  room,           \* "none", "created", "connected" or "destroyed"
  connectFailed,
  audioPub, videoPub,            \* the publications are non-null
  audio_running, video_running,
  audioThread, videoThread,      \* "none", "running", "finished" or "joined"
  audioFrames, videoFrames,      \* frames the capture loops produced
  unpublishCalls,                \* the tracks unpublishTrack was called for
  exit_code                      \* what main returned; -1 while it runs

roomVars == <<argv, env, url, token, self_test, parsed, pc, handler, g_running, lk,
              initCalls, shutdownCalls, room, connectFailed, audioPub, videoPub,
              audio_running, video_running, audioThread, videoThread, audioFrames,
              videoFrames, unpublishCalls, exit_code>>

vars == <<sdkVars, roomVars>>

argsVars == <<url, token, self_test, parsed>>
sigVars == <<handler, g_running>>
lkVars == <<lk, initCalls, shutdownCalls>>
roomState == <<room, connectFailed>>
pubVars == <<audioPub, videoPub>>
flagVars == <<audio_running, video_running>>
threadVars == <<audioThread, videoThread>>
frameVars == <<audioFrames, videoFrames>>

----------------------------------------------------------------------------
(* Strings *)

Unset == <<>>
Latest == <<"latest">>
LibCmake == <<"/lib/cmake">>

\* if(<variable>): an unset or empty string is false
IsSet(s) == s # <<>>

\* string(TOLOWER ...) on the processor names of the model
ToLower(s) ==
  CASE s = "AMD64"   -> "amd64"
    [] s = "X86_64"  -> "x86_64"
    [] s = "ARM64"   -> "arm64"
    [] s = "AARCH64" -> "aarch64"
    [] s = "RISCV64" -> "riscv64"
    [] OTHER         -> s

\* string(REGEX REPLACE "^v" "" ...)
StripLeadingV(tag) == IF tag # <<>> /\ Head(tag) = "v" THEN Tail(tag) ELSE tag

IsPrefix(p, s) == Len(p) <= Len(s) /\ SubSeq(s, 1, Len(p)) = p

----------------------------------------------------------------------------
(* The inputs of the model *)

Hosts ==
  { [WIN32 |-> TRUE,  APPLE |-> FALSE, UNIX |-> FALSE, proc |-> "AMD64"],
    [WIN32 |-> FALSE, APPLE |-> TRUE,  UNIX |-> TRUE,  proc |-> "arm64"],
    [WIN32 |-> FALSE, APPLE |-> FALSE, UNIX |-> TRUE,  proc |-> "x86_64"],
    [WIN32 |-> FALSE, APPLE |-> FALSE, UNIX |-> TRUE,  proc |-> "riscv64"],
    [WIN32 |-> FALSE, APPLE |-> FALSE, UNIX |-> FALSE, proc |-> "x86_64"] }

BuildDir == <<"build">>
DefaultDownloadDir == BuildDir \o <<"/_downloads">>
DefaultRepo == <<"livekit/client-sdk-cpp">>

\* What the calling CMakeLists.txt passes on every configure run. DOWNLOAD_DIR
\* is never passed, so the default of line 164 is used.
Calls ==
  [ SDK_DIR : {Unset, BuildDir \o <<"/_deps/livekit-sdk">>},
    REPO    : {Unset, <<"fork/client-sdk-cpp">>},
    TRIPLE  : {Unset, <<"linux-x64">>} ]

Versions == {Unset, Latest, <<"1">>}
Hashes == {"h1", "h2"}
Sha256s == {Unset, <<"h1">>}

\* file(DOWNLOAD) of releases/latest: the curl status and the tag_name of the body
ApiResponses ==
  {[code |-> 6, tag |-> <<>>]} \cup
  {[code |-> 0, tag |-> t] : t \in {<<"v", "1">>, <<"v", "2">>, <<"2">>, <<>>}}

\* file(DOWNLOAD) of the archive: the curl status and the hash of what arrived
DownloadResponses ==
  {[code |-> 22, hash |-> ""]} \cup {[code |-> 0, hash |-> h] : h \in Hashes}

\* file(ARCHIVE_EXTRACT): what the archive leaves under DESTINATION
ExtractOutcomes ==
  {"error_clean", "error_partial", "ok_complete", "ok_no_libcmake", "ok_other_root"}

----------------------------------------------------------------------------
(* Helpers of LiveKitSDK.cmake *)

_lk_detect_host(h) ==
  LET os   == IF h.WIN32 THEN <<"windows">>
              ELSE IF h.APPLE THEN <<"macos">>
              ELSE IF h.UNIX THEN <<"linux">>
              ELSE <<>>
      proc_l == ToLower(h.proc)
      arch == IF proc_l \in {"x86_64", "amd64"} THEN <<"x64">>
              ELSE IF proc_l \in {"arm64", "aarch64"} THEN <<"arm64">>
              ELSE <<>>
  IN  IF os = <<>>
        THEN [fatal |-> "unsupported host OS", os |-> <<>>, arch |-> <<>>]
      ELSE IF arch = <<>>
        THEN [fatal |-> "unsupported host arch", os |-> os, arch |-> <<>>]
      ELSE [fatal |-> "", os |-> os, arch |-> arch]

_lk_default_triple(h) ==
  LET d == _lk_detect_host(h)
  IN  [fatal |-> d.fatal, triple |-> d.os \o <<"-">> \o d.arch]

_lk_archive_ext(h) ==
  LET d == _lk_detect_host(h)
  IN  [fatal |-> d.fatal,
       ext   |-> IF d.os = <<"windows">> THEN <<"zip">> ELSE <<"tar.gz">>]

\* a status check that lets every status through
StatusFailedIgnored(code) == FALSE

\* if(NOT _code EQUAL 0)
StatusFailed(code) == code # 0

\* an existence test that never finds the path
ExistsNever(path, d) == FALSE

\* EXISTS <path>
Exists(path, d) == path \in d

\* file(REMOVE_RECURSE <path>)
RemoveRecurse(path, d) == {p \in d : ~IsPrefix(path, p)}

ArchiveName(triple, ver, ext) ==
  <<"livekit-sdk-">> \o triple \o <<"-">> \o ver \o <<".">> \o ext

\* a URL built from ${LK_VERSION} where ${_resolved_version} belongs
DownloadUrlOfRequested(repo, ver, archive) ==
  <<"https://github.com/">> \o repo \o <<"/releases/download/v">> \o LK.VERSION
    \o <<"/">> \o archive

DownloadUrl(repo, ver, archive) ==
  <<"https://github.com/">> \o repo \o <<"/releases/download/v">> \o ver
    \o <<"/">> \o archive

ExtractedRoot(sdk_dir, triple, ver) ==
  sdk_dir \o <<"/livekit-sdk-">> \o triple \o <<"-">> \o ver

NoCache == [LIVEKIT_SDK_EXTRACTED_ROOT |-> <<>>, LIVEKIT_SDK_URL_USED |-> <<>>,
            LIVEKIT_SDK_VERSION_RESOLVED |-> <<>>, LIVEKIT_SDK_TRIPLE_USED |-> <<>>]

NoArgs == [VERSION |-> <<>>, SDK_DIR |-> <<>>, REPO |-> <<>>, SHA256 |-> <<>>,
           TRIPLE |-> <<>>, DOWNLOAD_DIR |-> <<>>, NO_DOWNLOAD |-> FALSE]

NoDerived == [VERSION |-> <<>>, resolved |-> <<>>, url |-> <<>>, root |-> <<>>]

Stopped == sdkpc \in {"idle", "done", "aborted"}

----------------------------------------------------------------------------
(* livekit_sdk_setup, one action per step *)

SdkStart(hosts, calls) ==
  /\ host \in hosts
  /\ call \in calls
  /\ ARGN = NoArgs
  /\ LK = NoArgs
  /\ _resolved_version = <<>>
  /\ _url = <<>>
  /\ _extracted_root = <<>>
  /\ found = FALSE
  /\ sdkpc = "idle"
  /\ fatal = ""
  /\ dirs = {}
  /\ CMAKE_PREFIX_PATH = <<>>
  /\ LiveKit_DIR = <<>>
  /\ cache = NoCache
  /\ trace = {}
  /\ faults = {}
  /\ lastDerived = NoDerived

Abort(msg) == sdkpc' = "aborted" /\ fatal' = msg

\* A configure run calls livekit_sdk_setup: argument parsing, the required
\* arguments and the defaults (lines 148-165).
Configure(version, sha256, no_download) ==
  /\ Stopped
  /\ ARGN' = [VERSION |-> version, SDK_DIR |-> call.SDK_DIR, REPO |-> call.REPO,
              SHA256 |-> sha256, TRIPLE |-> call.TRIPLE, DOWNLOAD_DIR |-> Unset,
              NO_DOWNLOAD |-> no_download]
  /\ lastDerived' = IF _url # <<>>
                      THEN [VERSION |-> LK.VERSION, resolved |-> _resolved_version,
                            url |-> _url, root |-> _extracted_root]
                      ELSE lastDerived
  /\ _resolved_version' = <<>>
  /\ _url' = <<>>
  /\ _extracted_root' = <<>>
  /\ found' = FALSE
  /\ CMAKE_PREFIX_PATH' = <<>>
  /\ LiveKit_DIR' = <<>>
  /\ trace' = {}
  /\ faults' = {}
  /\ IF ~IsSet(version)
       THEN Abort("VERSION is required") /\ LK' = ARGN'
     ELSE IF ~IsSet(call.SDK_DIR)
       THEN Abort("SDK_DIR is required") /\ LK' = ARGN'
     ELSE /\ LK' = [ARGN' EXCEPT
                      !.REPO = IF IsSet(call.REPO) THEN call.REPO ELSE DefaultRepo,
                      !.DOWNLOAD_DIR = DefaultDownloadDir]
          /\ sdkpc' = "triple"
          /\ fatal' = ""
  /\ UNCHANGED <<roomVars, host, call, dirs, cache>>

\* lines 166-168
DefaultTriple ==
  /\ sdkpc = "triple"
  /\ IF IsSet(LK.TRIPLE)
       THEN sdkpc' = "resolve" /\ UNCHANGED <<LK, fatal, faults>>
     ELSE LET t == _lk_default_triple(host)
          IN  IF t.fatal # ""
                THEN /\ Abort(t.fatal)
                     /\ faults' = faults \cup {t.fatal}
                     /\ UNCHANGED LK
              ELSE /\ LK' = [LK EXCEPT !.TRIPLE = t.triple]
                   /\ sdkpc' = "resolve"
                   /\ UNCHANGED <<fatal, faults>>
  /\ UNCHANGED <<roomVars, host, call, ARGN, _resolved_version, _url,
                 _extracted_root, found,
                 dirs, CMAKE_PREFIX_PATH, LiveKit_DIR, cache, trace, lastDerived>>

\* lines 170-185, with _lk_resolve_latest_version (lines 64-135). The request
\* headers (GITHUB_TOKEN) change nothing the run does afterwards and are left
\* out; string(JSON ... GET) of a body without tag_name stops the run like the
\* empty tag does.
ResolveVersion ==
  /\ sdkpc = "resolve"
  /\ IF LK.VERSION # Latest
       THEN /\ _resolved_version' = LK.VERSION
            /\ sdkpc' = "derive"
            /\ UNCHANGED <<LK, fatal, dirs, trace, faults>>
     ELSE \E resp \in ApiResponses :
            /\ LK' = [LK EXCEPT !.SHA256 = <<>>]
            /\ dirs' = dirs \cup {LK.DOWNLOAD_DIR}
            /\ trace' = trace \cup {"api_query"}
            /\ IF StatusFailed(resp.code)
                 THEN /\ Abort("failed to query latest release from GitHub API")
                      /\ faults' = faults \cup {"api network failure"}
                      /\ _resolved_version' = LK.VERSION
               ELSE IF resp.tag = <<>>
                 THEN /\ Abort("GitHub API response missing tag_name")
                      /\ _resolved_version' = LK.VERSION
                      /\ UNCHANGED faults
               ELSE /\ _resolved_version' = StripLeadingV(resp.tag)
                    /\ sdkpc' = "derive"
                    /\ UNCHANGED <<fatal, faults>>
  /\ UNCHANGED <<roomVars, host, call, ARGN, _url, _extracted_root, found,
                 CMAKE_PREFIX_PATH,
                 LiveKit_DIR, cache, lastDerived>>

\* lines 187-198
Derive ==
  /\ sdkpc = "derive"
  /\ LET e == _lk_archive_ext(host)
         archive == ArchiveName(LK.TRIPLE, _resolved_version, e.ext)
     IN  IF e.fatal # ""
           THEN /\ Abort(e.fatal)
                /\ faults' = faults \cup {e.fatal}
                /\ UNCHANGED <<_url, _extracted_root, dirs>>
         ELSE /\ _url' = DownloadUrl(LK.REPO, _resolved_version, archive)
              /\ _extracted_root' =
                   ExtractedRoot(LK.SDK_DIR, LK.TRIPLE, _resolved_version)
              /\ dirs' = dirs \cup {LK.DOWNLOAD_DIR, LK.SDK_DIR}
              /\ sdkpc' = "exists"
              /\ UNCHANGED <<fatal, faults>>
  /\ UNCHANGED <<roomVars, host, call, ARGN, LK, _resolved_version, found,
                 CMAKE_PREFIX_PATH,
                 LiveKit_DIR, cache, trace, lastDerived>>

\* lines 200-206
CheckExists ==
  /\ sdkpc = "exists"
  /\ found' = Exists(_extracted_root, dirs)
  /\ IF found'
       THEN sdkpc' = "layout" /\ UNCHANGED fatal
     ELSE IF LK.NO_DOWNLOAD
       THEN Abort("SDK not found and NO_DOWNLOAD was set")
     ELSE sdkpc' = "download" /\ UNCHANGED fatal
  /\ UNCHANGED <<roomVars, host, call, ARGN, LK, _resolved_version, _url,
                 _extracted_root, dirs,
                 CMAKE_PREFIX_PATH, LiveKit_DIR, cache, trace, faults, lastDerived>>

\* lines 208-232: file(DOWNLOAD ... [EXPECTED_HASH]) and the status check. With
\* EXPECTED_HASH a hash mismatch is a non-zero status. The request is taken to
\* go out on every call.
Download ==
  /\ sdkpc = "download"
  /\ \E resp \in DownloadResponses :
       LET mismatch == IsSet(LK.SHA256) /\ <<resp.hash>> # LK.SHA256
           code == IF resp.code # 0 THEN resp.code
                   ELSE IF mismatch THEN 1 ELSE 0
       IN  /\ trace' = trace \cup {"archive_download"}
           /\ faults' = faults
                \cup (IF resp.code # 0 THEN {"archive network failure"} ELSE {})
                \cup (IF resp.code = 0 /\ IsSet(ARGN.SHA256)
                           /\ <<resp.hash>> # ARGN.SHA256
                        THEN {"checksum mismatch"} ELSE {})
           /\ IF StatusFailed(code)
                THEN Abort("download failed")
              ELSE sdkpc' = "extract" /\ UNCHANGED fatal
  /\ UNCHANGED <<roomVars, host, call, ARGN, LK, _resolved_version, _url,
                 _extracted_root, found,
                 dirs, CMAKE_PREFIX_PATH, LiveKit_DIR, cache, lastDerived>>

\* lines 234-241: file(REMOVE_RECURSE) and file(ARCHIVE_EXTRACT)
Extract ==
  /\ sdkpc = "extract"
  /\ \E out \in ExtractOutcomes :
       LET cleared == RemoveRecurse(_extracted_root, dirs)
       IN  /\ trace' = trace \cup {"remove", "extract"}
           /\ dirs' = cleared \cup
                CASE out = "ok_complete" ->
                       {_extracted_root, _extracted_root \o LibCmake}
                  [] out \in {"ok_no_libcmake", "error_partial"} -> {_extracted_root}
                  [] OTHER -> {}
           /\ IF out \in {"error_clean", "error_partial"}
                THEN /\ Abort("archive extraction failed")
                     /\ faults' = faults \cup {"archive extraction failure"}
              ELSE sdkpc' = "layout" /\ UNCHANGED <<fatal, faults>>
  /\ UNCHANGED <<roomVars, host, call, ARGN, LK, _resolved_version, _url,
                 _extracted_root, found,
                 CMAKE_PREFIX_PATH, LiveKit_DIR, cache, lastDerived>>

\* lines 244-250
CheckLayout ==
  /\ sdkpc = "layout"
  /\ faults' = faults \cup (IF (_extracted_root \o LibCmake) \in dirs
                              THEN {} ELSE {"missing lib/cmake"})
  /\ IF ~Exists(_extracted_root \o LibCmake, dirs)
       THEN Abort("extracted SDK does not look valid (missing lib/cmake)")
     ELSE sdkpc' = "export" /\ UNCHANGED fatal
  /\ UNCHANGED <<roomVars, host, call, ARGN, LK, _resolved_version, _url,
                 _extracted_root, found,
                 dirs, CMAKE_PREFIX_PATH, LiveKit_DIR, cache, trace, lastDerived>>

\* lines 252-265
Export ==
  /\ sdkpc = "export"
  /\ CMAKE_PREFIX_PATH' = <<_extracted_root>> \o CMAKE_PREFIX_PATH
  /\ LiveKit_DIR' = _extracted_root \o LibCmake \o <<"/LiveKit">>
  /\ cache' = [LIVEKIT_SDK_EXTRACTED_ROOT |-> _extracted_root,
               LIVEKIT_SDK_URL_USED |-> _url,
               LIVEKIT_SDK_VERSION_RESOLVED |-> _resolved_version,
               LIVEKIT_SDK_TRIPLE_USED |-> LK.TRIPLE]
  /\ trace' = trace \cup {"prefix"}
  /\ sdkpc' = "done"
  /\ UNCHANGED <<roomVars, host, call, ARGN, LK, _resolved_version, _url,
                 _extracted_root, found,
                 fatal, dirs, faults, lastDerived>>

\* README "Reconfigure to change versions": rm -rf build
RemoveBuildDir ==
  /\ Stopped
  /\ dirs # {} \/ cache # NoCache
  /\ dirs' = RemoveRecurse(BuildDir, dirs)
  /\ cache' = NoCache
  /\ UNCHANGED <<roomVars, host, call, ARGN, LK, _resolved_version, _url,
                 _extracted_root, found,
                 sdkpc, fatal, CMAKE_PREFIX_PATH, LiveKit_DIR, trace, faults,
                 lastDerived>>

----------------------------------------------------------------------------
(* basic_room/main.cpp *)

MaxArgs == 2
MaxFrames == 1

NULL == <<"NULL">>

Args ==
  { <<"-h">>, <<"--help">>, <<"--self-test">>, <<"--url">>, <<"--url=", "ws">>,
    <<"--url=">>, <<"--token">>, <<"--token=", "tk">>, <<"x">> }

RECURSIVE SeqsUpTo(_, _)
SeqsUpTo(S, n) ==
  IF n = 0 THEN {<<>>}
  ELSE LET shorter == SeqsUpTo(S, n - 1)
       IN  shorter \cup {Append(q, a) : q \in {r \in shorter : Len(r) = n - 1}, a \in S}

Argvs == SeqsUpTo(Args, MaxArgs)
EnvValues == {NULL, <<>>, <<"e">>}

\* a help test that knows the long flag only
IsHelpLongOnly(a) == a = <<"--help">>

\* a == "-h" || a == "--help"
IsHelp(a) == a = <<"-h">> \/ a = <<"--help">>

\* a.rfind(prefix, 0) == 0
StartsWith(a, prefix) == IsPrefix(prefix, a)

\* a.substr(prefix.size())
AfterPrefix(a, prefix) == SubSeq(a, Len(prefix) + 1, Len(a))

\* The for loop of parseArgs (lines 45-73) from index i on. argv of the model
\* has no argv[0], so argc is Len(args) + 1 and take fails when i is the last
\* index.
RECURSIVE ParseLoop(_, _, _, _)
ParseLoop(args, i, u, t) ==
  IF i > Len(args)
    THEN [returned |-> FALSE, ok |-> TRUE, why |-> "", url |-> u, token |-> t,
          self_test |-> FALSE]
  ELSE
    LET a == args[i]
        canTake == i + 1 < Len(args) + 1
        early(ok, why, st) == [returned |-> TRUE, ok |-> ok, why |-> why, url |-> u,
                               token |-> t, self_test |-> st]
    IN  IF IsHelp(a) THEN early(FALSE, "help", FALSE)
        ELSE IF a = <<"--self-test">> THEN early(TRUE, "", TRUE)
        ELSE IF a = <<"--url">>
          THEN IF canTake THEN ParseLoop(args, i + 2, args[i + 1], t)
               ELSE early(FALSE, "no value", FALSE)
        ELSE IF StartsWith(a, <<"--url=">>)
          THEN ParseLoop(args, i + 1, AfterPrefix(a, <<"--url=">>), t)
        ELSE IF a = <<"--token">>
          THEN IF canTake THEN ParseLoop(args, i + 2, u, args[i + 1])
               ELSE early(FALSE, "no value", FALSE)
        ELSE IF StartsWith(a, <<"--token=">>)
          THEN ParseLoop(args, i + 1, u, AfterPrefix(a, <<"--token=">>))
        ELSE ParseLoop(args, i + 1, u, t)

\* if (x.empty()) if (const char *e = std::getenv(NAME)) x = e;
EnvFallback(x, e) == IF x = <<>> /\ e # NULL THEN e ELSE x

\* parseArgs, lines 44-85
parseArgs(args, e) ==
  LET r == ParseLoop(args, 1, <<>>, <<>>)
      u == EnvFallback(r.url, e.LIVEKIT_URL)
      t == EnvFallback(r.token, e.LIVEKIT_TOKEN)
  IN  IF r.returned THEN r
      ELSE [r EXCEPT !.url = u, !.token = t,
                     !.ok = ~(u = <<>> \/ t = <<>>),
                     !.why = IF u = <<>> \/ t = <<>> THEN "missing" ELSE ""]

\* return 1 after printUsage (line 94)
UsageExitCode == 1

\* a keep-alive loop that does not wait for the signal
KeepAliveDoneAtOnce == TRUE

\* while (g_running.load()) (line 170)
KeepAliveDone == ~g_running

\* if (audioThread.joinable()) audioThread.join(): join returns once the thread
\* has finished (lines 178-181)
JoinReturns(thread) == thread = "finished"

NotParsed == [returned |-> FALSE, ok |-> FALSE, why |-> "", url |-> <<>>,
              token |-> <<>>, self_test |-> FALSE]

RoomStart(argvs, envs) ==
  /\ argv \in argvs
  /\ env \in [LIVEKIT_URL : envs, LIVEKIT_TOKEN : envs]
  /\ url = <<>> /\ token = <<>> /\ self_test = FALSE
  /\ parsed = NotParsed
  /\ pc = "start"
  /\ handler = "SIG_DFL"
  /\ g_running = TRUE
  /\ lk = "uninitialized"
  /\ initCalls = 0 /\ shutdownCalls = 0
  /\ room = "none"
  /\ connectFailed = FALSE
  /\ audioPub = FALSE /\ videoPub = FALSE
  /\ audio_running = FALSE /\ video_running = FALSE
  /\ audioThread = "none" /\ videoThread = "none"
  /\ audioFrames = 0 /\ videoFrames = 0
  /\ unpublishCalls = {}
  /\ exit_code = -1

\* livekit::initialize
initialize == lk' = "initialized" /\ initCalls' = initCalls + 1 /\ UNCHANGED shutdownCalls

\* livekit::shutdown
shutdown == lk' = "shut down" /\ shutdownCalls' = shutdownCalls + 1 /\ UNCHANGED initCalls

\* lines 90-92: the call of parseArgs
ParseArgs ==
  /\ pc = "start"
  /\ LET r == parseArgs(argv, env)
     IN  /\ parsed' = r
         /\ url' = r.url /\ token' = r.token /\ self_test' = r.self_test
         /\ pc' = IF ~r.ok THEN "usage" ELSE IF r.self_test THEN "self_test" ELSE "signal"
  /\ UNCHANGED <<argv, env, sdkVars, sigVars, lkVars, roomState, pubVars, flagVars,
                 threadVars, frameVars, unpublishCalls, exit_code>>

\* lines 93-94
ReturnUsage ==
  /\ pc = "usage"
  /\ exit_code' = UsageExitCode
  /\ pc' = "exited"
  /\ UNCHANGED <<argv, env, sdkVars, argsVars, sigVars, lkVars, roomState, pubVars,
                 flagVars, threadVars, frameVars, unpublishCalls>>

\* line 97
SelfTestInitialize ==
  /\ pc = "self_test"
  /\ initialize
  /\ pc' = "self_test_shutdown"
  /\ UNCHANGED <<argv, env, sdkVars, argsVars, sigVars, roomState, pubVars, flagVars,
                 threadVars, frameVars, unpublishCalls, exit_code>>

\* lines 98-100
SelfTestShutdown ==
  /\ pc = "self_test_shutdown"
  /\ shutdown
  /\ exit_code' = 0
  /\ pc' = "exited"
  /\ UNCHANGED <<argv, env, sdkVars, argsVars, sigVars, roomState, pubVars, flagVars,
                 threadVars, frameVars, unpublishCalls>>

\* line 103
RegisterSignal ==
  /\ pc = "signal"
  /\ handler' = "handleSignal"
  /\ UNCHANGED g_running
  /\ pc' = "initialize"
  /\ UNCHANGED <<argv, env, sdkVars, argsVars, lkVars, roomState, pubVars, flagVars,
                 threadVars, frameVars, unpublishCalls, exit_code>>

\* line 106
Initialize ==
  /\ pc = "initialize"
  /\ initialize
  /\ pc' = "room"
  /\ UNCHANGED <<argv, env, sdkVars, argsVars, sigVars, roomState, pubVars, flagVars,
                 threadVars, frameVars, unpublishCalls, exit_code>>

\* lines 108-112
CreateRoom ==
  /\ pc = "room"
  /\ room' = "created"
  /\ UNCHANGED connectFailed
  /\ pc' = "connect"
  /\ UNCHANGED <<argv, env, sdkVars, argsVars, sigVars, lkVars, pubVars, flagVars,
                 threadVars, frameVars, unpublishCalls, exit_code>>

\* lines 114-116 and 121: room->Connect returns true or false
Connect ==
  /\ pc = "connect"
  /\ \E ok \in BOOLEAN :
       /\ room' = IF ok THEN "connected" ELSE room
       /\ connectFailed' = ~ok
       /\ pc' = IF ok THEN "publish_audio" ELSE "connect_failed"
  /\ UNCHANGED <<argv, env, sdkVars, argsVars, sigVars, lkVars, pubVars, flagVars,
                 threadVars, frameVars, unpublishCalls, exit_code>>

\* line 117
ConnectFailedShutdown ==
  /\ pc = "connect_failed"
  /\ shutdown
  /\ pc' = "connect_failed_return"
  /\ UNCHANGED <<argv, env, sdkVars, argsVars, sigVars, roomState, pubVars, flagVars,
                 threadVars, frameVars, unpublishCalls, exit_code>>

\* line 118: return 1 destroys the locals, the room among them
ConnectFailedReturn ==
  /\ pc = "connect_failed_return"
  /\ room' = "destroyed"
  /\ UNCHANGED connectFailed
  /\ exit_code' = 1
  /\ pc' = "exited"
  /\ UNCHANGED <<argv, env, sdkVars, argsVars, sigVars, lkVars, pubVars, flagVars,
                 threadVars, frameVars, unpublishCalls>>

\* lines 125-140: publishTrack returns a publication or throws std::exception
PublishAudio ==
  /\ pc = "publish_audio"
  /\ \E ok \in BOOLEAN : audioPub' = ok
  /\ UNCHANGED videoPub
  /\ pc' = "publish_video"
  /\ UNCHANGED <<argv, env, sdkVars, argsVars, sigVars, lkVars, roomState, flagVars,
                 threadVars, frameVars, unpublishCalls, exit_code>>

\* lines 144-158
PublishVideo ==
  /\ pc = "publish_video"
  /\ \E ok \in BOOLEAN : videoPub' = ok
  /\ UNCHANGED audioPub
  /\ pc' = "flags"
  /\ UNCHANGED <<argv, env, sdkVars, argsVars, sigVars, lkVars, roomState, flagVars,
                 threadVars, frameVars, unpublishCalls, exit_code>>

\* lines 161-162
InitFlags ==
  /\ pc = "flags"
  /\ audio_running' = TRUE
  /\ video_running' = TRUE
  /\ pc' = "spawn_audio"
  /\ UNCHANGED <<argv, env, sdkVars, argsVars, sigVars, lkVars, roomState, pubVars,
                 threadVars, frameVars, unpublishCalls, exit_code>>

\* lines 164-165
SpawnAudio ==
  /\ pc = "spawn_audio"
  /\ audioThread' = "running"
  /\ UNCHANGED videoThread
  /\ pc' = "spawn_video"
  /\ UNCHANGED <<argv, env, sdkVars, argsVars, sigVars, lkVars, roomState, pubVars,
                 flagVars, frameVars, unpublishCalls, exit_code>>

\* lines 166-167
SpawnVideo ==
  /\ pc = "spawn_video"
  /\ videoThread' = "running"
  /\ UNCHANGED audioThread
  /\ pc' = "keep_alive"
  /\ UNCHANGED <<argv, env, sdkVars, argsVars, sigVars, lkVars, roomState, pubVars,
                 flagVars, frameVars, unpublishCalls, exit_code>>

\* lines 170-172: one test of the loop condition, then a sleep or the exit
KeepAlive ==
  /\ pc = "keep_alive"
  /\ pc' = IF KeepAliveDone THEN "stop_audio" ELSE "keep_alive"
  /\ UNCHANGED <<argv, env, sdkVars, argsVars, sigVars, lkVars, roomState, pubVars,
                 flagVars, threadVars, frameVars, unpublishCalls, exit_code>>

\* line 175
StopAudio ==
  /\ pc = "stop_audio"
  /\ audio_running' = FALSE
  /\ UNCHANGED video_running
  /\ pc' = "stop_video"
  /\ UNCHANGED <<argv, env, sdkVars, argsVars, sigVars, lkVars, roomState, pubVars,
                 threadVars, frameVars, unpublishCalls, exit_code>>

\* line 176
StopVideo ==
  /\ pc = "stop_video"
  /\ video_running' = FALSE
  /\ UNCHANGED audio_running
  /\ pc' = "join_audio"
  /\ UNCHANGED <<argv, env, sdkVars, argsVars, sigVars, lkVars, roomState, pubVars,
                 threadVars, frameVars, unpublishCalls, exit_code>>

\* lines 178-179
JoinAudio ==
  /\ pc = "join_audio"
  /\ JoinReturns(audioThread)
  /\ audioThread' = "joined"
  /\ UNCHANGED videoThread
  /\ pc' = "join_video"
  /\ UNCHANGED <<argv, env, sdkVars, argsVars, sigVars, lkVars, roomState, pubVars,
                 flagVars, frameVars, unpublishCalls, exit_code>>

\* lines 180-181
JoinVideo ==
  /\ pc = "join_video"
  /\ JoinReturns(videoThread)
  /\ videoThread' = "joined"
  /\ UNCHANGED audioThread
  /\ pc' = "unpublish_audio"
  /\ UNCHANGED <<argv, env, sdkVars, argsVars, sigVars, lkVars, roomState, pubVars,
                 flagVars, frameVars, unpublishCalls, exit_code>>

\* lines 184-186 and 189-190: inside the try block; a throw leaves the block
UnpublishAudio ==
  /\ pc = "unpublish_audio"
  /\ IF audioPub
       THEN /\ unpublishCalls' = unpublishCalls \cup {"audio"}
            /\ \E throws \in BOOLEAN :
                 pc' = IF throws THEN "reset" ELSE "unpublish_video"
       ELSE UNCHANGED unpublishCalls /\ pc' = "unpublish_video"
  /\ UNCHANGED <<argv, env, sdkVars, argsVars, sigVars, lkVars, roomState, pubVars,
                 flagVars, threadVars, frameVars, exit_code>>

\* lines 187-190
UnpublishVideo ==
  /\ pc = "unpublish_video"
  /\ unpublishCalls' = IF videoPub THEN unpublishCalls \cup {"video"}
                       ELSE unpublishCalls
  /\ pc' = "reset"
  /\ UNCHANGED <<argv, env, sdkVars, argsVars, sigVars, lkVars, roomState, pubVars,
                 flagVars, threadVars, frameVars, exit_code>>

\* line 192
ResetRoom ==
  /\ pc = "reset"
  /\ room' = "destroyed"
  /\ UNCHANGED connectFailed
  /\ pc' = "shutdown"
  /\ UNCHANGED <<argv, env, sdkVars, argsVars, sigVars, lkVars, pubVars, flagVars,
                 threadVars, frameVars, unpublishCalls, exit_code>>

\* line 193
Shutdown ==
  /\ pc = "shutdown"
  /\ shutdown
  /\ pc' = "return"
  /\ UNCHANGED <<argv, env, sdkVars, argsVars, sigVars, roomState, pubVars, flagVars,
                 threadVars, frameVars, unpublishCalls, exit_code>>

\* lines 194-195
Return ==
  /\ pc = "return"
  /\ exit_code' = 0
  /\ pc' = "exited"
  /\ UNCHANGED <<argv, env, sdkVars, argsVars, sigVars, lkVars, roomState, pubVars,
                 flagVars, threadVars, frameVars, unpublishCalls>>

\* runNoiseCaptureLoop(audioSource, audio_running) of capture_utils.h: a frame
\* per turn while the flag is set, return once it is clear
runNoiseCaptureLoop ==
  /\ audioThread = "running"
  /\ IF audio_running
       THEN /\ audioFrames < MaxFrames
            /\ audioFrames' = audioFrames + 1
            /\ UNCHANGED <<audioThread, videoThread>>
       ELSE /\ audioThread' = "finished"
            /\ UNCHANGED <<videoThread, audioFrames>>
  /\ UNCHANGED videoFrames
  /\ UNCHANGED <<argv, env, sdkVars, argsVars, sigVars, lkVars, roomState, pubVars,
                 flagVars, unpublishCalls, exit_code, pc>>

\* runFakeVideoCaptureLoop(videoSource, video_running) of capture_utils.h
runFakeVideoCaptureLoop ==
  /\ videoThread = "running"
  /\ IF video_running
       THEN /\ videoFrames < MaxFrames
            /\ videoFrames' = videoFrames + 1
            /\ UNCHANGED <<audioThread, videoThread>>
       ELSE /\ videoThread' = "finished"
            /\ UNCHANGED <<audioThread, videoFrames>>
  /\ UNCHANGED audioFrames
  /\ UNCHANGED <<argv, env, sdkVars, argsVars, sigVars, lkVars, roomState, pubVars,
                 flagVars, unpublishCalls, exit_code, pc>>

\* SIGINT while the process runs: handleSignal (line 35) once it is registered,
\* the default disposition (the process is killed) before
Sigint ==
  /\ pc \notin {"exited", "killed"}
  /\ IF handler = "handleSignal"
       THEN g_running /\ g_running' = FALSE /\ UNCHANGED <<handler, pc>>
       ELSE pc' = "killed" /\ UNCHANGED <<handler, g_running>>
  /\ UNCHANGED <<argv, env, sdkVars, argsVars, lkVars, roomState, pubVars, flagVars,
                 threadVars, frameVars, unpublishCalls, exit_code>>

NextRoom ==
  \/ ParseArgs
  \/ ReturnUsage
  \/ SelfTestInitialize
  \/ SelfTestShutdown
  \/ RegisterSignal
  \/ Initialize
  \/ CreateRoom
  \/ Connect
  \/ ConnectFailedShutdown
  \/ ConnectFailedReturn
  \/ PublishAudio
  \/ PublishVideo
  \/ InitFlags
  \/ SpawnAudio
  \/ SpawnVideo
  \/ KeepAlive
  \/ StopAudio
  \/ StopVideo
  \/ JoinAudio
  \/ JoinVideo
  \/ UnpublishAudio
  \/ UnpublishVideo
  \/ ResetRoom
  \/ Shutdown
  \/ Return
  \/ runNoiseCaptureLoop
  \/ runFakeVideoCaptureLoop
  \/ Sigint

----------------------------------------------------------------------------
(* The specifications *)

NextSdk ==
  \/ \E v \in Versions, s \in Sha256s, n \in BOOLEAN : Configure(v, s, n)
  \/ DefaultTriple
  \/ ResolveVersion
  \/ Derive
  \/ CheckExists
  \/ Download
  \/ Extract
  \/ CheckLayout
  \/ Export
  \/ RemoveBuildDir

\* the build helper alone: basic_room is not running
InitSdk == SdkStart(Hosts, Calls) /\ RoomStart({<<>>}, {NULL})

\* the example binary alone: no configure run is under way
InitRoom ==
  /\ RoomStart(Argvs, EnvValues)
  /\ SdkStart({[WIN32 |-> FALSE, APPLE |-> FALSE, UNIX |-> TRUE, proc |-> "x86_64"]},
              {[SDK_DIR |-> BuildDir \o <<"/_deps/livekit-sdk">>, REPO |-> Unset,
                TRIPLE |-> Unset]})

SpecSdk == InitSdk /\ [][NextSdk]_vars

SpecRoom == InitRoom /\ [][NextRoom]_vars

----------------------------------------------------------------------------
(* Properties of livekit_sdk_setup (SpecSdk) *)

NetworkCalls == trace \cap {"api_query", "archive_download"}

\* the expected extracted directory is on disk and this run did not put it there
AlreadyExtracted ==
  /\ _extracted_root # <<>>
  /\ _extracted_root \in dirs
  /\ "extract" \notin trace

HostArchUnsupported ==
  ToLower(host.proc) \notin {"x86_64", "amd64", "arm64", "aarch64"}

Aborted ==
  /\ sdkpc = "aborted"
  /\ "prefix" \notin trace
  /\ CMAKE_PREFIX_PATH = <<>>
  /\ LiveKit_DIR = <<>>

\* C1 as stated: a run that finds the expected extracted directory on disk
\* makes no network call, whatever VERSION is.
C1_NoNetworkWhenExtracted == AlreadyExtracted => NetworkCalls = {}

\* C1, amended: a run that finds the expected extracted directory on disk never
\* downloads the archive; it queries the release API exactly when VERSION is
\* "latest", so only a fixed VERSION gives a run with no network call.
C1_NoArchiveDownloadWhenExtracted ==
  AlreadyExtracted =>
    /\ "archive_download" \notin trace
    /\ "api_query" \in trace <=> LK.VERSION = Latest

C1_Witness ==
  /\ AlreadyExtracted
  /\ sdkpc = "done"
  /\ LK.VERSION # Latest
  /\ NetworkCalls = {}

\* C2: on a host whose processor is not x86_64/amd64/arm64/aarch64 no run makes
\* a network call, and none gets past the derivation of the URL, whatever the
\* options are.
C2_UnsupportedArchFailsBeforeNetwork ==
  (HostArchUnsupported /\ sdkpc # "idle") =>
    /\ NetworkCalls = {}
    /\ sdkpc \in {"triple", "resolve", "derive", "aborted"}

\* C3: with NO_DOWNLOAD a run makes no network call, fails when the extracted
\* root is absent and goes on with the local copy otherwise.
C3_NoDownloadMeansNoNetwork ==
  (ARGN.NO_DOWNLOAD /\ sdkpc # "idle") =>
    /\ NetworkCalls = {}
    /\ sdkpc \notin {"download", "extract"}
    /\ sdkpc \in {"layout", "export", "done"} => found

\* C4 as stated: whatever went wrong (host, network, checksum against the
\* SHA256 that was passed, extraction, layout), the run is aborted and neither
\* CMAKE_PREFIX_PATH nor LiveKit_DIR is set.
C4_EveryFailureAborts == faults # {} => Aborted

\* C4, amended: the same, but a checksum mismatch counts only for a fixed
\* VERSION; with VERSION "latest" the SHA256 that was passed is dropped and the
\* archive is not verified.
C4_EveryDetectedFailureAborts ==
  (faults \ (IF ARGN.VERSION = Latest THEN {"checksum mismatch"} ELSE {})) # {}
    => Aborted

C4_Witness ==
  /\ "checksum mismatch" \in faults
  /\ ARGN.VERSION # Latest
  /\ Aborted

\* C8 as stated: two runs on the same host with the same VERSION, REPO, SDK_DIR
\* and TRIPLE derive the same URL and the same extraction path. (host and call
\* never change in a behaviour; lastDerived is the run before this one.)
C8_SameVersionSameUrl ==
  (_url # <<>> /\ lastDerived.url # <<>> /\ lastDerived.VERSION = LK.VERSION) =>
    /\ _url = lastDerived.url
    /\ _extracted_root = lastDerived.root

\* C8, amended: two runs on the same host with the same REPO, SDK_DIR and TRIPLE
\* that resolve the same version (VERSION itself, or with "latest" the tag the
\* release API returned) derive the same URL and the same extraction path,
\* whatever is on disk and whatever the archive download returns.
C8_SameResolvedVersionSameUrl ==
  (_url # <<>> /\ lastDerived.url # <<>>
     /\ lastDerived.resolved = _resolved_version) =>
    /\ _url = lastDerived.url
    /\ _extracted_root = lastDerived.root

C8_Witness ==
  /\ _url # <<>>
  /\ lastDerived.url = _url
  /\ lastDerived.root = _extracted_root
  /\ lastDerived.VERSION # LK.VERSION
  /\ found

\* C9: a run without NO_DOWNLOAD never goes on with a tree it found on disk that
\* lacks lib/cmake: it removes the tree and extracts the archive again.
C9_PartialExtractionRemoved ==
  (found /\ ~LK.NO_DOWNLOAD /\ sdkpc \in {"done", "aborted"}
     /\ ~Exists(_extracted_root \o LibCmake, dirs)) =>
    {"remove", "extract"} \subseteq trace

----------------------------------------------------------------------------
(* Properties of basic_room (SpecRoom) *)

\* url or token is empty even after the environment fallbacks
RequiredMissing ==
  \/ EnvFallback(url, env.LIVEKIT_URL) = <<>>
  \/ EnvFallback(token, env.LIVEKIT_TOKEN) = <<>>

SelfTestRan == self_test /\ room = "none" /\ lk = "shut down"

NormalShutdown == room = "destroyed" /\ ~connectFailed /\ lk = "shut down"

\* C5 as stated: main returns 0 exactly after the self-test or a normal
\* shutdown, 1 exactly when url or token is missing after the environment
\* fallbacks (the self-test needs neither) or the connection failed, and
\* nothing else.
C5_ExitCodes ==
  pc = "exited" =>
    /\ exit_code \in {0, 1}
    /\ exit_code = 0 <=> (SelfTestRan \/ NormalShutdown)
    /\ exit_code = 1 <=> ((~SelfTestRan /\ RequiredMissing) \/ connectFailed)

\* C5, amended: main returns 0 exactly after the self-test or a normal shutdown,
\* and 1 exactly when parseArgs rejected the command line (-h/--help was
\* reached, a trailing --url/--token had no value, or no --self-test was
\* reached and url or token was missing after the fallbacks) or the connection
\* failed; nothing else.
C5_ExitCodesWithUsage ==
  /\ pc = "exited" =>
       /\ exit_code \in {0, 1}
       /\ exit_code = 0 <=> (SelfTestRan \/ NormalShutdown)
       /\ exit_code = 1 <=> (parsed.why \in {"help", "no value", "missing"}
                               \/ connectFailed)
       /\ (argv # <<>> /\ argv[1] \in {<<"-h">>, <<"--help">>}) => exit_code = 1
  /\ parsed.why = "help" => \E i \in 1..Len(argv) : argv[i] \in {<<"-h">>, <<"--help">>}
  /\ parsed.why = "no value" =>
       argv # <<>> /\ argv[Len(argv)] \in {<<"--url">>, <<"--token">>}
  /\ parsed.why = "missing" => RequiredMissing /\ ~self_test

C5_Witness ==
  /\ pc = "exited"
  /\ exit_code = 1
  /\ parsed.why = "help"
  /\ ~RequiredMissing
  /\ ~connectFailed

Alive(thread) == thread \in {"running", "finished"}

\* C6: a capture loop returns only once its stop flag is clear; the stop flags
\* are cleared only after SIGINT cleared g_running; while a capture thread is
\* not joined nothing is unpublished, the room is not destroyed, the SDK is not
\* shut down and main has not returned; and no capture thread is left when the
\* process ends.
C6_CaptureThreadsJoined ==
  /\ audioThread \in {"finished", "joined"} => ~audio_running
  /\ videoThread \in {"finished", "joined"} => ~video_running
  /\ (audioThread # "none" /\ ~audio_running) => ~g_running
  /\ (videoThread # "none" /\ ~video_running) => ~g_running
  /\ (Alive(audioThread) \/ Alive(videoThread)) =>
       /\ unpublishCalls = {}
       /\ room # "destroyed"
       /\ lk # "shut down"
       /\ exit_code = -1
  /\ pc \in {"exited", "killed"} =>
       /\ audioThread \in {"none", "joined"}
       /\ videoThread \in {"none", "joined"}

C6_Witness ==
  /\ pc = "exited"
  /\ audioThread = "joined"
  /\ videoThread = "joined"
  /\ audioFrames > 0
  /\ videoFrames > 0
  /\ ~g_running

\* C7: once the unpublish step of a connected run is over, unpublishTrack was
\* called for every track whose publication succeeded.
C7_EveryPublishedTrackUnpublished ==
  pc \in {"reset", "shutdown", "return"} =>
    /\ audioPub => "audio" \in unpublishCalls
    /\ videoPub => "video" \in unpublishCalls

\* C10: initialize is called at most once, shutdown never more often than
\* initialize and exactly as often once main has returned, neither is called on
\* the usage path, and the SDK is never shut down while the room exists.
C10_InitializeShutdownPaired ==
  /\ initCalls <= 1
  /\ shutdownCalls <= initCalls
  /\ pc = "exited" => shutdownCalls = initCalls
  /\ pc = "usage" => initCalls = 0 /\ shutdownCalls = 0
  /\ (pc = "exited" /\ ~parsed.ok) => initCalls = 0 /\ shutdownCalls = 0
  /\ lk = "shut down" => room \in {"none", "destroyed"}

====
